---- MODULE Spec2Model ----
(***************************************************************************)
(* Model of the EJB static-analysis pipeline of src/utils/ejb_parser.py.   *)
(*                                                                         *)
(* Text is modelled at token granularity: a Java identifier, an annotation *)
(* text or a type text is a sequence of tokens ("OrderServiceImpl" is      *)
(* <<"Order","Service","Impl">>).  The alphabet is chosen so that the      *)
(* keywords the code searches for (Remote, Local, Service, DAO, ...) are   *)
(* tokens of their own and occur nowhere else, hence substring search,     *)
(* suffix match, concatenation and str.replace of the code are exact on    *)
(* token sequences.                                                        *)
(***************************************************************************)
EXTENDS Naturals, Sequences, FiniteSets, TLC

VARIABLES project, scanOrder, symbol_table, all_imports, interfaces,
          pc, parses, edits, dirty, super_contexts, validation,
          manifest, app, workers, store, backup, temp_dir

\* the state of the desktop application and of what its analysis runs write
appVars == <<app, workers, store, backup, temp_dir>>

vars == <<project, scanOrder, symbol_table, all_imports, interfaces,
          pc, parses, edits, dirty, super_contexts, validation,
          manifest, appVars>>

(***************************************************************************)
(* Bounds                                                                  *)
(***************************************************************************)
MaxFiles == 3
MaxParses == 2
MaxEdits == 1
MaxThreads == 2
MaxContexts == 2

(***************************************************************************)
(* Generic sequence helpers                                                *)
(***************************************************************************)
Range(s) == {s[i] : i \in 1..Len(s)}

RECURSIVE Flatten(_)
Flatten(ss) == IF ss = <<>> THEN <<>> ELSE Head(ss) \o Flatten(Tail(ss))

Perms(S) == {s \in [1..Cardinality(S) -> S] : \A x \in S : \E i \in 1..Cardinality(S) : s[i] = x}

Last(s) == s[Len(s)]

(***************************************************************************)
(* Program constants                                                       *)
(***************************************************************************)
None == <<>>

EJB_ANNOTATIONS == {"Remote", "Local", "Stateless", "Stateful",
                    "Singleton", "MessageDriven", "EJB", "EJBs"}

INTERFACE_PATTERNS == <<"Remote", "Local", "Service", "DAO", "Repository">>

DEFAULT_IGNORED_DIRS ==
    {"__pycache__", "venv", "virtualenv", ".venv", ".virtualenv",
     "node_modules", ".git", ".svn", ".hg", ".idea",
     "build", "dist", "target", "bin", "obj",
     ".tox", ".pytest_cache", ".mypy_cache",
     ".eggs", "*.egg-info", ".vscode",
     ".next", ".nuxt", "coverage", ".coverage",
     "vendor", "bower_components", "assets", "resources"}

(***************************************************************************)
(* Token-level string operations                                           *)
(***************************************************************************)
\* str.upper() on one token: tokens that differ only by case share a value.
Upper(t) == CASE t = "local" -> "Local"
              [] t = "remote" -> "Remote"
              [] OTHER -> t

\* `kw in text`
Contains(text, kw) == \E i \in 1..Len(text) : text[i] = kw

\* `kw.upper() in text.upper()`
ContainsIgnoreCase(text, kw) == \E i \in 1..Len(text) : Upper(text[i]) = Upper(kw)

\* re.search(r'.*<suffix>$', name)
EndsWith(name, suffix) == Len(name) > 0 /\ Last(name) = suffix

\* name.replace(old, new), new given as a token sequence
Replace(name, old, new) ==
    Flatten([i \in 1..Len(name) |-> IF name[i] = old THEN new ELSE <<name[i]>>])

(***************************************************************************)
(* Source text of a Java file.  A file has a path, at most one package     *)
(* statement, import statements, type declarations in textual order and    *)
(* method-shaped items in textual order.  readable = FALSE is a file whose *)
(* open() raises.                                                          *)
(*                                                                         *)
(* layout of a declaration's annotations:                                  *)
(*   "own"        @Ann on lines of their own, then `interface Name`        *)
(*   "own_public" @Ann on lines of their own, then `public interface Name` *)
(*   "same"       `@Ann public interface Name` on one line                 *)
(***************************************************************************)
Path(dirs, file) == [dirs |-> dirs, file |-> file]

Decl(kind, name, annots, layout, impl) ==
    [kind |-> kind, name |-> name, annots |-> annots, layout |-> layout,
     implements |-> impl]

Import(pkg, name) == [pkg |-> pkg, name |-> name]

Param(type, name) == [type |-> type, name |-> name]

\* ret = None when the text has no return type before the name
MethodText(ret, name, params) == [ret |-> ret, name |-> name, params |-> params]

JavaFile(path, package, readable, decls, imports, methods) ==
    [path |-> path, package |-> package, readable |-> readable,
     decls |-> decls, imports |-> imports, methods |-> methods]

PlainDecl(kind, name) == Decl(kind, name, <<>>, "own", {})

(***************************************************************************)
(* Input universes.  A project is a set of at most MaxFiles files with     *)
(* distinct paths drawn from one universe.                                 *)
(***************************************************************************)
FooRemote == <<"Foo", "Remote">>
FooService == <<"Foo", "Service">>
RemoteFoo == <<"Remote", "Foo">>
BarService == <<"Bar", "Service">>
Foo == <<"Foo">>
UserServiceRemote == <<"User", "Service", "Remote">>
UserServiceBean == <<"User", "Service", "Bean">>
OrderService == <<"Order", "Service">>
OrderServiceImpl == <<"Order", "Service", "Impl">>
OrderServiceBean == <<"Order", "Service", "Bean">>
FooLocal == <<"Foo", "Local">>
FooBean == <<"Foo", "Bean">>
OrderManager == <<"Order", "Manager">>
PaymentDAO == <<"Payment", "DAO">>
PaymentDAOImpl == <<"Payment", "DAO", "Impl">>
PaymentDTO == <<"Payment", "DTO">>
PaymentRequestDTO == <<"Payment", "Request", "DTO">>
UserDTO == <<"User", "DTO">>
OrderEntity == <<"Order", "Entity">>
CustomerEntity == <<"Customer", "Entity">>
Customer == <<"Customer">>
FooRepository == <<"Foo", "Repository">>
UserDAO == <<"User", "DAO">>
\* the type text List<UserDTO>
ListOfUserDTO == <<"List", "<", "User", "DTO", ">">>

\* symbol-table inputs: packages, name collisions, ignored directories,
\* unreadable files, classes and enums
SymbolUniverse ==
    LET pA == Path(<<"src", "a">>, "FooRemote.java") IN
    { JavaFile(pA, "a", TRUE, <<PlainDecl("interface", FooRemote)>>, {}, <<>>),
      JavaFile(pA, "a", FALSE, <<PlainDecl("interface", FooRemote)>>, {}, <<>>),
      JavaFile(pA, "a", TRUE, <<PlainDecl("class", Foo)>>, {}, <<>>),
      JavaFile(Path(<<"src", "b">>, "FooRemote.java"), "b", TRUE,
               <<PlainDecl("class", FooRemote)>>, {}, <<>>),
      JavaFile(Path(<<"src", "c">>, "FooRemote.java"), "a", TRUE,
               <<Decl("interface", FooRemote, <<<<"Local">>>>, "own", {})>>, {}, <<>>),
      JavaFile(Path(<<"build", "gen">>, "BarService.java"), "a", TRUE,
               <<PlainDecl("interface", BarService)>>, {}, <<>>),
      JavaFile(Path(<<"src">>, "Plain.java"), "", TRUE,
               <<PlainDecl("interface", Foo), PlainDecl("enum", FooService)>>, {}, <<>>),
      JavaFile(Path(<<"src", "a">>, "Foo.java"), "a", TRUE,
               <<Decl("interface", Foo, <<<<"Stateless">>>>, "own", {})>>, {}, <<>>) }

\* classifier inputs: one interface per file, every annotation placement
AnnotationVariants ==
    { <<<<<<"Local">>>>, l>> : l \in {"own", "own_public", "same"} }
    \cup { <<<<>>, "own">>,
           <<<<<<"Stateless">>>>, "own">>,
           <<<<<<"Deprecated">>, <<"Local">>>>, "own">>,
           <<<<<<"local">>>>, "own">> }

ClassifyUniverse ==
    LET p2 == Path(<<"cls">>, "P2.java") IN
    { JavaFile(Path(<<"cls">>, "P1.java"), "p", TRUE,
               <<Decl("interface", n, v[1], v[2], {})>>, {}, <<>>)
        : n \in {Foo, FooRemote}, v \in AnnotationVariants }
    \cup
    { JavaFile(p2, "p", TRUE, <<PlainDecl("interface", FooService)>>, {}, <<>>),
      JavaFile(p2, "p", TRUE,
               <<Decl("interface", FooService, <<<<"Local">>>>, "own_public", {})>>, {}, <<>>),
      JavaFile(p2, "p", TRUE, <<PlainDecl("interface", RemoteFoo)>>, {}, <<>>),
      JavaFile(p2, "p", TRUE,
               <<Decl("interface", RemoteFoo, <<<<"Stateless">>>>, "own", {})>>, {}, <<>>) }

\* bean-linker inputs
LinkUniverse ==
    LET pImpl == Path(<<"link">>, "OrderServiceImpl.java")
        getUser == MethodText(<<"String">>, "getUser", <<Param(<<"int">>, "id")>>)
    IN
    { JavaFile(Path(<<"link">>, "UserServiceRemote.java"), "", TRUE,
               <<PlainDecl("interface", UserServiceRemote)>>, {}, <<getUser>>),
      JavaFile(Path(<<"link">>, "UserServiceBean.java"), "", TRUE,
               <<Decl("class", UserServiceBean, <<>>, "own", {UserServiceRemote})>>,
               {}, <<getUser>>),
      JavaFile(Path(<<"link">>, "OrderService.java"), "", TRUE,
               <<PlainDecl("interface", OrderService)>>, {}, <<>>),
      JavaFile(pImpl, "", TRUE,
               <<Decl("class", OrderServiceImpl, <<>>, "own", {OrderService})>>, {}, <<>>),
      JavaFile(pImpl, "", FALSE,
               <<Decl("class", OrderServiceImpl, <<>>, "own", {OrderService})>>, {}, <<>>),
      JavaFile(Path(<<"link">>, "OrderServiceBean.java"), "", TRUE,
               <<PlainDecl("class", OrderServiceBean)>>, {}, <<>>) }

\* bean-linker inputs without a <Name>Bean / <Name>Impl / <Name>EJB class:
\* suffix substitution, implements-clause fallback, no bean at all
FallbackUniverse ==
    LET pMgr == Path(<<"fb">>, "OrderManager.java") IN
    { JavaFile(Path(<<"fb">>, "FooLocal.java"), "", TRUE,
               <<PlainDecl("interface", FooLocal)>>, {}, <<>>),
      JavaFile(Path(<<"fb">>, "FooBean.java"), "", TRUE,
               <<Decl("class", FooBean, <<>>, "own", {FooLocal})>>, {}, <<>>),
      JavaFile(Path(<<"fb">>, "OrderService.java"), "", TRUE,
               <<PlainDecl("interface", OrderService)>>, {}, <<>>),
      JavaFile(pMgr, "", TRUE,
               <<Decl("class", OrderManager, <<>>, "own", {OrderService})>>, {}, <<>>),
      JavaFile(pMgr, "", TRUE, <<PlainDecl("class", OrderManager)>>, {}, <<>>) }

\* the scenario-C file: PaymentDAO imports com.app.dto.PaymentDTO and declares
\* PaymentDTO process(PaymentRequestDTO req)
ScenarioCFile ==
    JavaFile(Path(<<"dao">>, "PaymentDAO.java"), "com.app.dao", TRUE,
             <<PlainDecl("interface", PaymentDAO)>>,
             {Import("com.app.dto", PaymentDTO)},
             <<MethodText(PaymentDTO, "process", <<Param(PaymentRequestDTO, "req")>>)>>)

\* related-class inputs: imported and unimported DTO and entity types, the
\* types' own file present, empty or absent
RelateUniverse ==
    LET pTypes == Path(<<"dao">>, "Types.java") IN
    { ScenarioCFile,
      JavaFile(Path(<<"dao">>, "PaymentDAO.java"), "com.app.dao", TRUE,
               <<PlainDecl("interface", PaymentDAO)>>,
               {Import("com.app.dto", PaymentDTO), Import("com.app.dto", UserDTO),
                Import("com.app.model", OrderEntity)},
               <<MethodText(PaymentDTO, "process", <<Param(PaymentRequestDTO, "req")>>),
                 MethodText(OrderEntity, "load", <<Param(CustomerEntity, "c")>>)>>),
      JavaFile(Path(<<"dao">>, "PaymentDAOImpl.java"), "com.app.dao", TRUE,
               <<Decl("class", PaymentDAOImpl, <<>>, "own", {PaymentDAO})>>, {}, <<>>),
      JavaFile(pTypes, "", TRUE,
               <<PlainDecl("class", PaymentDTO), PlainDecl("class", OrderEntity)>>, {}, <<>>),
      JavaFile(pTypes, "", TRUE, <<>>, {}, <<>>) }

\* the deployment descriptor, a file that is not a Java file
EjbJarXml == JavaFile(Path(<<"val", "META-INF">>, "ejb-jar.xml"), "", TRUE, <<>>, {}, <<>>)

\* validation inputs: descriptor, plain and annotated classes, one or two
\* conventionally named interfaces in one or two files
ValidateUniverse ==
    LET pCust == Path(<<"val">>, "Customer.java")
        pSvc == Path(<<"val">>, "FooService.java")
        pOther == Path(<<"val">>, "Other.java")
    IN
    { EjbJarXml,
      JavaFile(pCust, "", TRUE, <<PlainDecl("class", Customer)>>, {}, <<>>),
      JavaFile(pCust, "", TRUE,
               <<Decl("class", Customer, <<<<"MessageDriven">>>>, "own", {})>>, {}, <<>>),
      JavaFile(pCust, "", TRUE,
               <<Decl("class", Customer, <<<<"Stateless">>>>, "own", {})>>, {}, <<>>),
      JavaFile(pSvc, "", TRUE, <<PlainDecl("interface", FooService)>>, {}, <<>>),
      JavaFile(pSvc, "", TRUE,
               <<PlainDecl("interface", FooService), PlainDecl("interface", BarService)>>,
               {}, <<>>),
      JavaFile(pOther, "", TRUE, <<PlainDecl("interface", BarService)>>, {}, <<>>),
      JavaFile(pOther, "", TRUE, <<PlainDecl("interface", FooRepository)>>, {}, <<>>) }

\* a project for the desktop application: an interface file at the top
\* level, an interface file in a directory, and a plain class in another
AppUniverse ==
    LET pFoo == Path(<<>>, "FooRemote.java")
        pBar == Path(<<"ejb">>, "BarService.java")
        pCust == Path(<<"lib">>, "Customer.java")
    IN
    { JavaFile(pFoo, "", TRUE,
               <<Decl("interface", FooRemote, <<<<"Remote">>>>, "own", {})>>, {}, <<>>),
      JavaFile(pBar, "ejb", TRUE,
               <<Decl("interface", BarService, <<<<"Local">>>>, "own", {})>>, {}, <<>>),
      JavaFile(pCust, "lib", TRUE, <<PlainDecl("class", Customer)>>, {}, <<>>) }

\* an interface whose method returns a generic type, or the plain type
GenericUniverse ==
    LET pDao == Path(<<"gen">>, "UserDAO.java") IN
    { JavaFile(pDao, "gen", TRUE, <<PlainDecl("interface", UserDAO)>>, {},
               <<MethodText(ListOfUserDTO, "findAll", <<>>)>>),
      JavaFile(pDao, "gen", TRUE, <<PlainDecl("interface", UserDAO)>>,
               {Import("com.app.dto", UserDTO)},
               <<MethodText(UserDTO, "find", <<Param(<<"Long">>, "id")>>)>>),
      JavaFile(Path(<<"gen">>, "UserDTO.java"), "gen", TRUE,
               <<PlainDecl("class", UserDTO)>>, {}, <<>>),
      JavaFile(Path(<<"gen">>, "List.java"), "gen", TRUE,
               <<PlainDecl("class", <<"List">>)>>, {}, <<>>) }

AllFiles ==
    SymbolUniverse \cup ClassifyUniverse \cup LinkUniverse \cup FallbackUniverse
        \cup RelateUniverse \cup ValidateUniverse \cup AppUniverse
        \cup GenericUniverse

RECURSIVE UpTo(_, _)
UpTo(U, n) == IF n = 0 THEN {{}}
              ELSE LET S == UpTo(U, n - 1) IN S \cup {s \cup {x} : s \in S, x \in U}

PathsOf(P) == {f.path : f \in P}

Projects(U) == {P \in UpTo(U, MaxFiles) : \A f, g \in P : f.path = g.path => f = g}

FileAt(p) == CHOOSE f \in project : f.path = p

\* mutant: a file that cannot be opened is read as if it could
Readable_NoError(p) ==
    /\ temp_dir # "removed"
    /\ \E f \in project : f.path = p

\* open(path) succeeds
Readable(p) ==
    /\ temp_dir # "removed"
    /\ \E f \in project : f.path = p /\ f.readable

\* the worker threads the application can have in flight
Threads == 1..MaxThreads

\* the locals of a task() that has not been started
NewWorker ==
    [pc |-> "new", input |-> "", extracted_path |-> <<>>,
     symbol_table |-> <<>>, interfaces |-> <<>>, super_contexts |-> <<>>,
     outcome |-> "none"]

\* EJBTabMixin._init_ejb_state, an empty context store and no backup files
InitApp ==
    /\ app = [ejb_path_var |-> "", ejb_symbol_table |-> <<>>,
              ejb_interfaces |-> <<>>, ejb_chroma_manager |-> FALSE]
    /\ workers = [t \in Threads |-> NewWorker]
    /\ store = {}
    /\ backup = {}
    /\ temp_dir = "none"

(***************************************************************************)
(* EJBParser.__init__ and the project the parser is pointed at             *)
(***************************************************************************)
InitOver(U) ==
    /\ project \in Projects(U)
    /\ scanOrder \in Perms(PathsOf(project))
    /\ symbol_table = <<>>
    /\ all_imports = <<>>
    /\ interfaces = <<>>
    /\ pc = "idle"
    /\ parses = 0
    /\ edits = 0
    /\ dirty = FALSE
    /\ super_contexts = <<>>
    /\ validation = None
    /\ manifest = None
    /\ InitApp

Init == InitOver(SymbolUniverse)

InitClassify == InitOver(ClassifyUniverse)

InitFallback == InitOver(FallbackUniverse)

InitRelate == InitOver(RelateUniverse)

InitValidate == InitOver(ValidateUniverse)

InitLink == InitOver(LinkUniverse)

InitSession == InitOver(AppUniverse)

\* the interface files of the application's project
InitGui == InitOver({f \in AppUniverse : f.path.file # "Customer.java"})

InitGeneric == InitOver(GenericUniverse)

\* projects with a file that cannot be opened next to readable ones
ErrorUniverse ==
    {f \in SymbolUniverse :
        f.path \in {Path(<<"src", "a">>, "FooRemote.java"), Path(<<"src", "a">>, "Foo.java"),
                    Path(<<"src">>, "Plain.java")}}

InitErrors == InitOver(ErrorUniverse)

\* projects of an interface with methods and imports and of one without
ManifestUniverse ==
    {f \in RelateUniverse \cup AppUniverse :
        f.path.file \in {"PaymentDAO.java", "PaymentDAOImpl.java", "FooRemote.java"}}

InitManifest == InitOver(ManifestUniverse)

(***************************************************************************)
(* Python dict with insertion order: a sequence of entries, unique keys    *)
(***************************************************************************)
Key(pkg, name) == [pkg |-> pkg, name |-> name]

\* a simple name has no '.', i.e. no package part
SimpleKey(name) == Key("", name)

IsSimple(k) == k.pkg = ""

Has(d, k) == \E i \in 1..Len(d) : d[i].key = k

Get(d, k) == d[CHOOSE i \in 1..Len(d) : d[i].key = k].path

\* mutant: an existing key keeps its first value
Put_KeepFirst(d, k, v) ==
    IF Has(d, k) THEN d ELSE Append(d, [key |-> k, path |-> v])

\* d[k] = v
Put(d, k, v) ==
    IF Has(d, k)
    THEN [i \in 1..Len(d) |-> IF d[i].key = k THEN [key |-> k, path |-> v] ELSE d[i]]
    ELSE Append(d, [key |-> k, path |-> v])

(***************************************************************************)
(* Pass 1: EJBParser._build_symbol_table                                   *)
(***************************************************************************)
\* the part of a file name after its last dot; ejb-jar.xml is the one file
\* name of the universes that does not end in .java
Extension(file_name) == IF file_name = "ejb-jar.xml" THEN "xml" ELSE "java"

\* self.project_path.rglob("*.java"): every Java file, in directory order
rglob ==
    SelectSeq(scanOrder,
              LAMBDA p : p \in PathsOf(project) /\ Extension(p.file) = "java")

\* the inner loop over re.findall(class_pattern, content)
RECURSIVE RegisterDecls(_, _, _, _)
RegisterDecls(st, decls, package, path) ==
    IF decls = <<>> THEN st
    ELSE LET class_name == Head(decls).name
             withSimple == Put(st, SimpleKey(class_name), path)
             withFull == Put(withSimple, Key(package, class_name), path)
         IN RegisterDecls(withFull, Tail(decls), package, path)

\* the outer loop over java_files; a file whose open() raises is skipped
RECURSIVE ScanFiles(_, _)
ScanFiles(st, files) ==
    IF files = <<>> THEN st
    ELSE LET p == Head(files)
             st1 == IF Readable(p)
                    THEN RegisterDecls(st, FileAt(p).decls, FileAt(p).package, p)
                    ELSE st
         IN ScanFiles(st1, Tail(files))

BuildSymbolTable ==
    /\ pc = "idle"
    /\ parses < MaxParses
    /\ symbol_table' = ScanFiles(symbol_table, rglob)
    /\ pc' = "imports"
    /\ dirty' = FALSE
    /\ UNCHANGED <<project, scanOrder, all_imports, interfaces, parses, edits, super_contexts, validation, manifest, appVars>>

(***************************************************************************)
(* Pass 2: EJBParser._analyze_imports                                      *)
(***************************************************************************)
SetImports(ai, path, imports) ==
    [q \in (DOMAIN ai) \cup {path} |-> IF q = path THEN imports ELSE ai[q]]

RECURSIVE CollectImports(_, _)
CollectImports(ai, entries) ==
    IF entries = <<>> THEN ai
    ELSE LET e == Head(entries)
             ai1 == IF IsSimple(e.key) /\ Readable(e.path)
                    THEN SetImports(ai, e.path, FileAt(e.path).imports)
                    ELSE ai
         IN CollectImports(ai1, Tail(entries))

AnalyzeImports ==
    /\ pc = "imports"
    /\ all_imports' = CollectImports(all_imports, symbol_table)
    /\ pc' = "identify"
    /\ UNCHANGED <<project, scanOrder, symbol_table, interfaces, parses, edits, dirty, super_contexts, validation, manifest, appVars>>

(***************************************************************************)
(* Pass 3: EJBParser._identify_interfaces                                  *)
(***************************************************************************)
\* re.search(r'\binterface\s+<class_name>\b', content)
DeclaresInterface(file, class_name) ==
    \E i \in 1..Len(file.decls) :
        file.decls[i].kind = "interface" /\ file.decls[i].name = class_name

InterfaceDecl(file, class_name) ==
    file.decls[CHOOSE i \in 1..Len(file.decls) :
        /\ file.decls[i].kind = "interface" /\ file.decls[i].name = class_name
        /\ \A j \in 1..(i - 1) :
              ~(file.decls[j].kind = "interface" /\ file.decls[j].name = class_name)]

\* EJBParser._extract_annotations: the run of `@...` lines that ends directly
\* at the `interface` keyword; each annotation extends to the end of its line
ExtractAnnotations(file, class_name) ==
    IF ~DeclaresInterface(file, class_name) THEN <<>>
    ELSE LET d == InterfaceDecl(file, class_name)
             n == Len(d.annots)
         IN CASE d.layout = "own" -> d.annots
              [] d.layout = "own_public" -> <<>>
              [] d.layout = "same" ->
                   [i \in 1..n |-> IF i = n
                                   THEN d.annots[i] \o <<"public", "interface">> \o d.name
                                   ELSE d.annots[i]]

\* EJBParser._is_ejb_annotation
IsEjbAnnotation(annotation) ==
    \E ejb_ann \in EJB_ANNOTATIONS : ContainsIgnoreCase(annotation, ejb_ann)

MatchesPattern(class_name) ==
    \E i \in 1..Len(INTERFACE_PATTERNS) : EndsWith(class_name, INTERFACE_PATTERNS[i])

\* mutant: the naming-convention fallback is missing
InterfaceType_AnnotationsOnly(annotations, class_name) ==
    IF \E i \in 1..Len(annotations) : Contains(annotations[i], "Remote") THEN "Remote"
    ELSE IF \E i \in 1..Len(annotations) : Contains(annotations[i], "Local") THEN "Local"
    ELSE "Unknown"

\* lines 179-195
InterfaceType(annotations, class_name) ==
    IF \E i \in 1..Len(annotations) : Contains(annotations[i], "Remote") THEN "Remote"
    ELSE IF \E i \in 1..Len(annotations) : Contains(annotations[i], "Local") THEN "Local"
    ELSE IF MatchesPattern(class_name)
         THEN IF Contains(class_name, "Remote") THEN "Remote"
              ELSE IF Contains(class_name, "Local") THEN "Local"
              ELSE "Business"
         ELSE "Unknown"

\* lines 197-201
IsEjb(annotations, class_name) ==
    \/ \E i \in 1..Len(annotations) : IsEjbAnnotation(annotations[i])
    \/ MatchesPattern(class_name)

SkippedMethodNames == {"class", "interface", "if", "while", "for", "catch"}

\* mutant: the return-type group is never read
ExtractMethods_VoidReturn(file) ==
    LET kept == SelectSeq(file.methods, LAMBDA m : m.name \notin SkippedMethodNames)
    IN [i \in 1..Len(kept) |->
          [return_type |-> <<"void">>,
           name |-> kept[i].name,
           parameters |-> kept[i].params]]

\* EJBParser._extract_methods, over the whole file text
ExtractMethods(file) ==
    LET kept == SelectSeq(file.methods, LAMBDA m : m.name \notin SkippedMethodNames)
    IN [i \in 1..Len(kept) |->
          [return_type |-> IF kept[i].ret = None THEN <<"void">> ELSE kept[i].ret,
           name |-> kept[i].name,
           parameters |-> kept[i].params]]

NewInterfaceInfo(file, class_name, file_path) ==
    LET annotations == ExtractAnnotations(file, class_name) IN
    [id |-> Key(file.package, class_name),
     interface_name |-> class_name,
     bean_class |-> None,
     file_path |-> file_path,
     package |-> file.package,
     annotations |-> annotations,
     interface_type |-> InterfaceType(annotations, class_name),
     methods |-> ExtractMethods(file),
     related_dtos |-> <<>>,
     related_entities |-> <<>>]

\* the loop over list(self.symbol_table.items()); seen is seen_interfaces
RECURSIVE Classify(_, _, _)
Classify(ifs, seen, entries) ==
    IF entries = <<>> THEN ifs
    ELSE LET e == Head(entries)
             class_name == e.key.name
             take == /\ IsSimple(e.key)
                     /\ Readable(e.path)
                     /\ DeclaresInterface(FileAt(e.path), class_name)
                     /\ IsEjb(ExtractAnnotations(FileAt(e.path), class_name), class_name)
                     /\ class_name \notin seen
         IN IF take
            THEN Classify(Append(ifs, NewInterfaceInfo(FileAt(e.path), class_name, e.path)),
                          seen \cup {class_name}, Tail(entries))
            ELSE Classify(ifs, seen, Tail(entries))

IdentifyInterfaces ==
    /\ pc = "identify"
    /\ interfaces' = Classify(interfaces, {}, symbol_table)
    /\ pc' = "link"
    /\ UNCHANGED <<project, scanOrder, symbol_table, all_imports, parses, edits, dirty, super_contexts, validation, manifest, appVars>>

(***************************************************************************)
(* Pass 4: EJBParser._link_beans_to_interfaces                             *)
(***************************************************************************)
\* lines 282-290
BeanCandidates(interface_name) ==
    << interface_name \o <<"Bean">>,
       interface_name \o <<"Impl">>,
       interface_name \o <<"EJB">>,
       Replace(interface_name, "Remote", <<"Bean">>),
       Replace(interface_name, "Local", <<"Bean">>),
       Replace(interface_name, "Service", <<"Service", "Impl">>),
       Replace(interface_name, "DAO", <<"DAO", "Impl">>) >>

\* mutant: the loop over the candidates has no break, the last hit wins
ByNaming_LastHit(info, st) ==
    LET c == BeanCandidates(info.interface_name)
        hit(i) == Has(st, SimpleKey(c[i]))
    IN IF \E i \in 1..Len(c) : hit(i)
       THEN [info EXCEPT !.bean_class =
                c[CHOOSE i \in 1..Len(c) : hit(i) /\ \A j \in (i + 1)..Len(c) : ~hit(j)]]
       ELSE info

\* Strategy 1 (lines 292-295): the first candidate that is a symbol-table key
ByNaming(info, st) ==
    LET c == BeanCandidates(info.interface_name)
        hit(i) == Has(st, SimpleKey(c[i]))
    IN IF \E i \in 1..Len(c) : hit(i)
       THEN [info EXCEPT !.bean_class =
                c[CHOOSE i \in 1..Len(c) : hit(i) /\ \A j \in 1..(i - 1) : ~hit(j)]]
       ELSE info

\* re.search(rf'implements\s+[^{{]*\b<interface_name>\b', content)
HasImplementsClause(file, interface_name) ==
    \E i \in 1..Len(file.decls) : interface_name \in file.decls[i].implements

\* Strategy 2 (lines 298-314): the first simple-name symbol whose file has an
\* implements clause naming the interface
ByImplements(info, st) ==
    LET hit(i) == /\ IsSimple(st[i].key)
                  /\ Readable(st[i].path)
                  /\ HasImplementsClause(FileAt(st[i].path), info.interface_name)
    IN IF info.bean_class = None /\ \E i \in 1..Len(st) : hit(i)
       THEN [info EXCEPT !.bean_class =
                st[CHOOSE i \in 1..Len(st) : hit(i) /\ \A j \in 1..(i - 1) : ~hit(j)].key.name]
       ELSE info

LinkOne(info, st) == ByImplements(ByNaming(info, st), st)

LinkBeans ==
    /\ pc = "link"
    /\ interfaces' = [i \in 1..Len(interfaces) |-> LinkOne(interfaces[i], symbol_table)]
    /\ pc' = "relate"
    /\ UNCHANGED <<project, scanOrder, symbol_table, all_imports, parses, edits, dirty, super_contexts, validation, manifest, appVars>>

(***************************************************************************)
(* Pass 5: EJBParser._find_related_classes                                 *)
(***************************************************************************)
dto_keywords == {"DTO", "Dto", "Data", "Value", "VO", "Model"}

entity_keywords == {"Entity", "Persistable", "Table", "JPA"}

HasKeyword(simple_name, keywords) == \E kw \in keywords : Contains(simple_name, kw)

\* mutant: the membership test is dropped
AppendIfAbsent_Always(list, x) == Append(list, x)

AppendIfAbsent(list, x) == IF x \in Range(list) THEN list ELSE Append(list, x)

\* text.split('.')[-1].replace('<', '').replace('>', '')
StripAngles(text) == SelectSeq(text, LAMBDA t : t \notin {"<", ">"})

\* mutant: the parameter's name is taken for its type
ParseParameterTypes_Names(parameters) ==
    [i \in 1..Len(parameters) |-> <<parameters[i].name>>]

\* EJBParser._parse_parameter_types
ParseParameterTypes(parameters) == [i \in 1..Len(parameters) |-> parameters[i].type]

\* lines 331-342, for the imports in their iteration order
RECURSIVE RelateImports(_, _)
RelateImports(info, imports) ==
    IF imports = <<>> THEN info
    ELSE LET simple_name == Head(imports).name
             i1 == IF HasKeyword(simple_name, dto_keywords)
                   THEN [info EXCEPT !.related_dtos = AppendIfAbsent(@, simple_name)]
                   ELSE info
             i2 == IF HasKeyword(simple_name, entity_keywords)
                   THEN [i1 EXCEPT !.related_entities = AppendIfAbsent(@, simple_name)]
                   ELSE i1
         IN RelateImports(i2, Tail(imports))

\* lines 356-360
RECURSIVE RelateParams(_, _)
RelateParams(info, types) ==
    IF types = <<>> THEN info
    ELSE LET simple_param == StripAngles(Head(types))
             i1 == IF HasKeyword(simple_param, dto_keywords)
                   THEN [info EXCEPT !.related_dtos = AppendIfAbsent(@, simple_param)]
                   ELSE info
         IN RelateParams(i1, Tail(types))

\* lines 345-360
RECURSIVE RelateMethods(_, _)
RelateMethods(info, methods) ==
    IF methods = <<>> THEN info
    ELSE LET method == Head(methods)
             simple_return == StripAngles(method.return_type)
             i1 == IF method.return_type # <<"void">> /\ HasKeyword(simple_return, dto_keywords)
                   THEN [info EXCEPT !.related_dtos = AppendIfAbsent(@, simple_return)]
                   ELSE info
         IN RelateMethods(RelateParams(i1, ParseParameterTypes(method.parameters)),
                          Tail(methods))

ImportUniverse == UNION {f.imports : f \in AllFiles}

\* the orders in which a set of imports can be iterated
ImportOrders == Perms(ImportUniverse)

\* self.all_imports.get(file_path, set()), iterated in set order `order`
ImportsOf(ai, file_path, order) ==
    IF file_path \in DOMAIN ai
    THEN SelectSeq(order, LAMBDA imp : imp \in ai[file_path])
    ELSE <<>>

\* mutant: the relatedness pass forgets the linked bean
RelateOne_DropsBean(info, ai, order) ==
    [RelateMethods(RelateImports(info, ImportsOf(ai, info.file_path, order)), info.methods)
        EXCEPT !.bean_class = None]

RelateOne(info, ai, order) ==
    RelateMethods(RelateImports(info, ImportsOf(ai, info.file_path, order)), info.methods)

FindRelated ==
    /\ pc = "relate"
    /\ \E order \in ImportOrders :
          interfaces' = [i \in 1..Len(interfaces) |-> RelateOne(interfaces[i], all_imports, order)]
    /\ pc' = "idle"
    /\ parses' = parses + 1
    /\ UNCHANGED <<project, scanOrder, symbol_table, all_imports, edits, dirty, super_contexts, validation, manifest, appVars>>

(***************************************************************************)
(* EJBRAGBuilder: one SuperContext per interface record                    *)
(***************************************************************************)
\* the text of a file: what open(path).read() returns
ContentOf(file) ==
    [package |-> file.package, imports |-> file.imports,
     decls |-> file.decls, methods |-> file.methods]

\* the text of an empty file
EmptyContent == [package |-> "", imports |-> {}, decls |-> <<>>, methods |-> <<>>]

\* EJBRAGBuilder._read_file_content: <<text>>, or None when open() or read() fails
ReadFileContent(file_path) ==
    IF Readable(file_path) THEN <<ContentOf(FileAt(file_path))>> ELSE None

\* mutant: an empty text counts as a text
Truthy_NotNone(code) == code # None

\* `if code:` on an Optional[str]
Truthy(code) == code # None /\ code[1] # EmptyContent

\* codes[name] = code on a dict kept in insertion order
PutCode(codes, name, code) ==
    IF \E i \in 1..Len(codes) : codes[i].name = name
    THEN [i \in 1..Len(codes) |->
            IF codes[i].name = name THEN [name |-> name, code |-> code] ELSE codes[i]]
    ELSE Append(codes, [name |-> name, code |-> code])

\* the loops of lines 101-108 and 110-117
RECURSIVE ReadCodes(_, _, _)
ReadCodes(codes, names, st) ==
    IF names = <<>> THEN codes
    ELSE LET name == Head(names)
             code == IF Has(st, SimpleKey(name))
                     THEN ReadFileContent(Get(st, SimpleKey(name)))
                     ELSE None
         IN ReadCodes(IF Truthy(code) THEN PutCode(codes, name, code[1]) ELSE codes,
                      Tail(names), st)

\* EJBRAGBuilder._build_super_context: <<context>>, or None
BuildSuperContext(info, st) ==
    LET interface_code == ReadFileContent(info.file_path)
        bean_code == IF info.bean_class # None /\ Has(st, SimpleKey(info.bean_class))
                     THEN ReadFileContent(Get(st, SimpleKey(info.bean_class)))
                     ELSE None
        dto_codes == ReadCodes(<<>>, info.related_dtos, st)
        entity_codes == ReadCodes(<<>>, info.related_entities, st)
    IN IF ~Truthy(interface_code) THEN None
       ELSE << [interface_name |-> info.interface_name,
                interface_code |-> interface_code[1],
                bean_code |-> bean_code,
                dto_codes |-> dto_codes,
                entity_codes |-> entity_codes,
                metadata |->
                    [interface_name |-> info.interface_name,
                     package |-> info.package,
                     interface_type |-> info.interface_type,
                     bean_class |-> info.bean_class,
                     has_bean |-> bean_code # None,
                     dto_count |-> Len(dto_codes),
                     entity_count |-> Len(entity_codes),
                     method_count |-> Len(info.methods),
                     methods |-> [k \in 1..Len(info.methods) |-> info.methods[k].name]]] >>

\* the loop of EJBRAGBuilder.build_all_super_contexts over self.interfaces
RECURSIVE BuildAll(_, _, _)
BuildAll(contexts, infos, st) ==
    IF infos = <<>> THEN contexts
    ELSE BuildAll(contexts \o BuildSuperContext(Head(infos), st), Tail(infos), st)

\* build_and_store_rag, lines 503-504: a new EJBRAGBuilder over the parser's
\* symbol table and records builds its contexts
BuildAllSuperContexts ==
    /\ pc = "idle"
    /\ parses >= 1
    /\ super_contexts' = BuildAll(<<>>, interfaces, symbol_table)
    /\ UNCHANGED <<project, scanOrder, symbol_table, all_imports, interfaces,
                   pc, parses, edits, dirty, validation, manifest, appVars>>

\* a further call of build_all_super_contexts on the same EJBRAGBuilder, whose
\* list keeps what the earlier calls appended (lines 72-78)
BuildAllSuperContextsAgain ==
    /\ pc = "idle"
    /\ parses >= 1
    /\ super_contexts # <<>>
    /\ Len(super_contexts) < MaxContexts
    /\ super_contexts' = BuildAll(super_contexts, interfaces, symbol_table)
    /\ UNCHANGED <<project, scanOrder, symbol_table, all_imports, interfaces,
                   pc, parses, edits, dirty, validation, manifest, appVars>>

(***************************************************************************)
(* The two renderings of a SuperContext, as sequences of lines             *)
(***************************************************************************)
\* a line of fixed text followed by a formatted value
Line(text, arg) == [text |-> text, arg |-> arg, code |-> None]

\* a code text (its own lines are kept together)
CodeLine(code) == [text |-> "", arg |-> <<>>, code |-> <<code>>]

BlankLine == Line("", <<>>)

InterfaceHeader == Line("// --- Interface Definition ---", <<>>)

BeanHeader == Line("// --- Implementation Bean ---", <<>>)

DtoHeader == Line("// --- Related DTOs ---", <<>>)

EntityHeader == Line("// --- Related Entities ---", <<>>)

\* the loop over codes.items(); EJBRAGBuilder.format_super_context appends ""
\* after each code, ChromaDBManager._format_full_code does not
CodeEntries(label, codes, blank) ==
    Flatten([k \in 1..Len(codes) |->
                <<Line(label, codes[k].name), CodeLine(codes[k].code)>>
                    \o (IF blank THEN <<BlankLine>> ELSE <<>>)])

\* EJBRAGBuilder.format_super_context
FormatSuperContext(sc) ==
    <<InterfaceHeader, Line("// File: ", sc.interface_name),
      CodeLine(sc.interface_code), BlankLine>>
    \o (IF Truthy(sc.bean_code)
        THEN <<BeanHeader>>
             \o (IF sc.metadata.bean_class # None
                 THEN <<Line("// Class: ", sc.metadata.bean_class)>> ELSE <<>>)
             \o <<CodeLine(sc.bean_code[1]), BlankLine>>
        ELSE <<>>)
    \o (IF sc.dto_codes # <<>>
        THEN <<DtoHeader>> \o CodeEntries("// DTO: ", sc.dto_codes, TRUE) ELSE <<>>)
    \o (IF sc.entity_codes # <<>>
        THEN <<EntityHeader>> \o CodeEntries("// Entity: ", sc.entity_codes, TRUE) ELSE <<>>)

\* mutant: the entity section is written before the DTO section
FormatFullCode_EntitiesFirst(sc) ==
    <<InterfaceHeader, CodeLine(sc.interface_code), BlankLine>>
    \o (IF Truthy(sc.bean_code)
        THEN <<BeanHeader, CodeLine(sc.bean_code[1]), BlankLine>> ELSE <<>>)
    \o (IF sc.entity_codes # <<>>
        THEN <<EntityHeader>> \o CodeEntries("// Entity: ", sc.entity_codes, FALSE) ELSE <<>>)
    \o (IF sc.dto_codes # <<>>
        THEN <<DtoHeader>> \o CodeEntries("// DTO: ", sc.dto_codes, FALSE) ELSE <<>>)

\* ChromaDBManager._format_full_code
FormatFullCode(sc) ==
    <<InterfaceHeader, CodeLine(sc.interface_code), BlankLine>>
    \o (IF Truthy(sc.bean_code)
        THEN <<BeanHeader, CodeLine(sc.bean_code[1]), BlankLine>> ELSE <<>>)
    \o (IF sc.dto_codes # <<>>
        THEN <<DtoHeader>> \o CodeEntries("// DTO: ", sc.dto_codes, FALSE) ELSE <<>>)
    \o (IF sc.entity_codes # <<>>
        THEN <<EntityHeader>> \o CodeEntries("// Entity: ", sc.entity_codes, FALSE) ELSE <<>>)

\* ChromaDBManager._format_for_chroma
FormatForChroma(sc) ==
    <<Line("INTERFACE: ", sc.interface_name),
      Line("PACKAGE: ", <<sc.metadata.package>>),
      Line("TYPE: ", <<sc.metadata.interface_type>>)>>
    \o (IF sc.metadata.methods # <<>>
        THEN <<Line("METHODS: ", sc.metadata.methods)>> ELSE <<>>)
    \o <<BlankLine>>
    \o FormatFullCode(sc)

(***************************************************************************)
(* validate_ejb_project                                                    *)
(***************************************************************************)
\* java_files[:100]
SampleLimit == 100

\* ejb_annotations of line 466
VALIDATE_ANNOTATIONS == {"Remote", "Local", "Stateless", "Stateful", "Singleton"}

\* the suffixes of the pattern of line 471
VALIDATE_SUFFIXES == {"Remote", "Local", "Service", "DAO"}

\* path.rglob("ejb-jar.xml")
rglobXml ==
    SelectSeq(scanOrder, LAMBDA p : p \in PathsOf(project) /\ p.file = "ejb-jar.xml")

\* any(ann in content for ann in ejb_annotations): the text `@<ann>` occurs
\* in the file, as an annotation name or as the start of one
HasValidateAnnotation(file) ==
    \E i \in 1..Len(file.decls) : \E k \in 1..Len(file.decls[i].annots) :
        file.decls[i].annots[k][1] \in VALIDATE_ANNOTATIONS

\* re.search(r'\binterface\s+\w+(?:Remote|Local|Service|DAO)\b', content)
HasValidateNaming(file) ==
    \E i \in 1..Len(file.decls) :
        /\ file.decls[i].kind = "interface"
        /\ Len(file.decls[i].name) >= 2
        /\ Last(file.decls[i].name) \in VALIDATE_SUFFIXES

Message(text, args) == [text |-> text, args |-> args]

Verdict(is_valid, message) == [is_valid |-> is_valid, message |-> message]

\* mutant: the descriptor is looked for before the Java files are counted
ValidateEjbProject_XmlFirst(exists) ==
    LET java_files == rglob
        sample == SelectSeq(SubSeq(java_files, 1, IF Len(java_files) < SampleLimit
                                                  THEN Len(java_files) ELSE SampleLimit),
                            Readable)
        has_ejb_xml == rglobXml # <<>>
        has_ejb_annotations == \E n \in 1..Len(sample) : HasValidateAnnotation(FileAt(sample[n]))
        interface_count == Len(SelectSeq(sample, LAMBDA q : HasValidateNaming(FileAt(q))))
        has_ejb_naming == interface_count >= 1
        is_ejb == has_ejb_xml \/ has_ejb_annotations \/ (has_ejb_naming /\ interface_count >= 2)
    IN IF ~exists THEN Verdict(FALSE, Message("Project path does not exist", <<>>))
       ELSE IF ~has_ejb_xml /\ java_files = <<>>
       THEN Verdict(FALSE, Message("No Java files found in the project", <<>>))
       ELSE IF ~is_ejb
       THEN Verdict(FALSE, Message("This does not appear to be an EJB project.", <<>>))
       ELSE Verdict(TRUE, Message("Valid EJB project detected with {} interfaces",
                                  <<interface_count>>))

\* validate_ejb_project; exists is path.exists(); files that cannot be read
\* are skipped by the except clause of line 475
ValidateEjbProject(exists) ==
    LET java_files == rglob
        sample == SelectSeq(SubSeq(java_files, 1, IF Len(java_files) < SampleLimit
                                                  THEN Len(java_files) ELSE SampleLimit),
                            Readable)
        has_ejb_xml == rglobXml # <<>>
        has_ejb_annotations == \E n \in 1..Len(sample) : HasValidateAnnotation(FileAt(sample[n]))
        interface_count == Len(SelectSeq(sample, LAMBDA q : HasValidateNaming(FileAt(q))))
        has_ejb_naming == interface_count >= 1
        is_ejb == has_ejb_xml \/ has_ejb_annotations \/ (has_ejb_naming /\ interface_count >= 2)
    IN IF ~exists THEN Verdict(FALSE, Message("Project path does not exist", <<>>))
       ELSE IF java_files = <<>>
       THEN Verdict(FALSE, Message("No Java files found in the project", <<>>))
       ELSE IF ~is_ejb
       THEN Verdict(FALSE, Message("This does not appear to be an EJB project.", <<>>))
       ELSE Verdict(TRUE, Message("Valid EJB project detected with {} interfaces",
                                  <<interface_count>>))

\* a call of validate_ejb_project on the project directory, or on a path
\* that does not exist (which then holds no files)
ValidateProject ==
    /\ pc = "idle"
    /\ \E exists \in BOOLEAN :
          /\ exists \/ project = {}
          /\ validation' = <<ValidateEjbProject(exists)>>
    /\ UNCHANGED <<project, scanOrder, symbol_table, all_imports, interfaces,
                   pc, parses, edits, dirty, super_contexts, manifest, appVars>>

(***************************************************************************)
(* EJBParser.generate_json_manifest: the JSON text, as the tree it denotes *)
(***************************************************************************)
JNull == [type |-> "null"]
JString(s) == [type |-> "string", value |-> s]
JNumber(n) == [type |-> "number", value |-> n]
JArray(items) == [type |-> "array", items |-> items]
JObject(members) == [type |-> "object", members |-> members]
Member(key, value) == [key |-> key, value |-> value]

\* json.dumps of an Optional[str], of a List[str] and of a method dict
DumpOptional(value) == IF value = None THEN JNull ELSE JString(value)

DumpStrings(strings) == JArray([i \in 1..Len(strings) |-> JString(strings[i])])

DumpMethod(method) ==
    JObject(<<Member("return_type", JString(method.return_type)),
              Member("name", JString(method.name)),
              Member("parameters", JString(method.parameters))>>)

\* mutant: json.dumps(..., sort_keys=True)
InfoMembers_SortKeys(info) ==
    <<Member("annotations", DumpStrings(info.annotations)),
      Member("bean_class", DumpOptional(info.bean_class)),
      Member("file_path", JString(info.file_path)),
      Member("id", JString(info.id)),
      Member("interface_name", JString(info.interface_name)),
      Member("interface_type", JString(info.interface_type)),
      Member("methods", JArray([k \in 1..Len(info.methods) |-> DumpMethod(info.methods[k])])),
      Member("package", JString(info.package)),
      Member("related_dtos", DumpStrings(info.related_dtos)),
      Member("related_entities", DumpStrings(info.related_entities))>>

\* asdict(interface), serialised: the fields in the order of the dataclass
InfoMembers(info) ==
    <<Member("id", JString(info.id)),
      Member("interface_name", JString(info.interface_name)),
      Member("bean_class", DumpOptional(info.bean_class)),
      Member("file_path", JString(info.file_path)),
      Member("package", JString(info.package)),
      Member("annotations", DumpStrings(info.annotations)),
      Member("interface_type", JString(info.interface_type)),
      Member("methods", JArray([k \in 1..Len(info.methods) |-> DumpMethod(info.methods[k])])),
      Member("related_dtos", DumpStrings(info.related_dtos)),
      Member("related_entities", DumpStrings(info.related_entities))>>

\* str(self.project_path)
ProjectPath == <<"project">>

GenerateJsonManifestText(infos) ==
    JObject(<<Member("project_path", JString(ProjectPath)),
              Member("total_interfaces", JNumber(Len(infos))),
              Member("interfaces",
                     JArray([i \in 1..Len(infos) |-> JObject(InfoMembers(infos[i]))]))>>)

\* a call of generate_json_manifest between two parse() calls
GenerateJsonManifest ==
    /\ pc = "idle"
    /\ manifest' = <<GenerateJsonManifestText(interfaces)>>
    /\ UNCHANGED <<project, scanOrder, symbol_table, all_imports, interfaces,
                   pc, parses, edits, dirty, super_contexts, validation, appVars>>

\* json.loads: null is None, a string or number is its value, an array is a
\* list, an object is a dict, kept as the sequence of its items
RECURSIVE Loads(_)
Loads(json) ==
    CASE json.type = "null" -> None
      [] json.type \in {"string", "number"} -> json.value
      [] json.type = "array" -> [i \in 1..Len(json.items) |-> Loads(json.items[i])]
      [] json.type = "object" ->
            [i \in 1..Len(json.members) |->
                [key |-> json.members[i].key, value |-> Loads(json.members[i].value)]]

(***************************************************************************)
(* extract_from_zip                                                        *)
(***************************************************************************)
\* os.listdir(extract_to) after zip_ref.extractall(extract_to) into an empty
\* directory: the top-level entries of the archive
ListDir(archive) ==
    {IF f.path.dirs = <<>>
     THEN [name |-> f.path.file, is_dir |-> FALSE]
     ELSE [name |-> f.path.dirs[1], is_dir |-> TRUE] : f \in archive}

\* mutant: a single entry is descended into whatever it is
ExtractFromZip_AnySingleEntry(archive) ==
    LET extracted_items == ListDir(archive)
    IN IF Cardinality(extracted_items) = 1
       THEN <<(CHOOSE e \in extracted_items : TRUE).name>>
       ELSE <<>>

\* extract_from_zip: the returned path, relative to extract_to
ExtractFromZip(archive) ==
    LET extracted_items == ListDir(archive)
    IN IF /\ Cardinality(extracted_items) = 1
          /\ \A e \in extracted_items : e.is_dir
       THEN <<(CHOOSE e \in extracted_items : TRUE).name>>
       ELSE <<>>

(***************************************************************************)
(* EJBTabMixin: the analysis runs of the desktop application               *)
(***************************************************************************)
\* EJBParser(path).parse() of a new parser: the five passes in a row
FreshParse(order) ==
    LET st == ScanFiles(<<>>, rglob)
        ai == CollectImports(<<>>, st)
        found == Classify(<<>>, {}, st)
        linked == [i \in 1..Len(found) |-> LinkOne(found[i], st)]
    IN [symbol_table |-> st,
        interfaces |-> [i \in 1..Len(linked) |-> RelateOne(linked[i], ai, order)]]

\* SuperContext file names and texts written by save_super_contexts_to_file
ContextFiles(contexts) ==
    {[file_name |-> contexts[i].interface_name \o <<"_context.txt">>,
      text |-> FormatSuperContext(contexts[i])] : i \in 1..Len(contexts)}

\* open(path, 'w').write(text) for each file: a file of the same name is replaced
WriteFiles(dir, files) ==
    {f \in dir : \A g \in files : g.file_name # f.file_name} \cup files

\* the id, document and metadata ChromaDBManager.add_super_contexts makes of a
\* SuperContext; hash(code) is modelled by the code itself, and the metadata
\* keep the values that are not lists
Document(sc) ==
    [id |-> <<sc.interface_name, sc.interface_code>>,
     document |-> FormatForChroma(sc),
     metadata |-> [interface_name |-> sc.metadata.interface_name,
                   package |-> sc.metadata.package,
                   interface_type |-> sc.metadata.interface_type,
                   bean_class |-> sc.metadata.bean_class,
                   has_bean |-> sc.metadata.has_bean,
                   dto_count |-> sc.metadata.dto_count,
                   entity_count |-> sc.metadata.entity_count,
                   method_count |-> sc.metadata.method_count]]

Documents(contexts) == {Document(contexts[i]) : i \in 1..Len(contexts)}

\* collection.add(ids, documents, metadatas) on a collection keyed by id: a
\* document whose id is already stored is not stored again, or (reject) the
\* store refuses the batch and the exception is logged
AddToCollection(collection, docs, reject) ==
    LET known == {d.id : d \in collection}
    IN IF reject /\ \E d \in docs : d.id \in known
       THEN collection
       ELSE collection \cup {d \in docs : d.id \notin known}

\* ejb_select_folder and ejb_upload_zip: the dialog returned a path
SelectFolder ==
    /\ app' = [app EXCEPT !.ejb_path_var = "dir"]
    /\ UNCHANGED <<project, scanOrder, symbol_table, all_imports, interfaces,
                   pc, parses, edits, dirty, super_contexts, validation,
                   manifest, workers, store, backup, temp_dir>>

UploadZip ==
    /\ app' = [app EXCEPT !.ejb_path_var = "zip"]
    /\ UNCHANGED <<project, scanOrder, symbol_table, all_imports, interfaces,
                   pc, parses, edits, dirty, super_contexts, validation,
                   manifest, workers, store, backup, temp_dir>>

\* what the steps of a worker thread leave alone
parserVars == <<scanOrder, symbol_table, all_imports, interfaces, pc, parses,
                edits, dirty, super_contexts, validation, manifest>>

InFlight(t) == workers[t].pc \notin {"new", "ended"}

\* ejb_analyze_project: threading.Thread(target=task).start() on the path in
\* the entry field; threads are started in the order of their numbers
AnalyzeProject(t) ==
    /\ app.ejb_path_var # ""
    /\ workers[t].pc = "new"
    /\ \A u \in Threads : u < t => workers[u].pc # "new"
    /\ workers' = [workers EXCEPT ![t].input = app.ejb_path_var,
                                  ![t].pc = IF app.ejb_path_var = "zip"
                                            THEN "extract" ELSE "validate"]
    /\ UNCHANGED <<project, parserVars, app, store, backup, temp_dir>>

\* the same click while no other run is in flight
AnalyzeProjectAlone(t) ==
    /\ \A u \in Threads : ~InFlight(u)
    /\ AnalyzeProject(t)

\* lines 160-161: a new temporary directory receives the archive
ExtractZip(t) ==
    /\ workers[t].pc = "extract"
    /\ temp_dir' = "open"
    /\ workers' = [workers EXCEPT ![t].extracted_path = ExtractFromZip(project),
                                  ![t].pc = "validate"]
    /\ UNCHANGED <<project, parserVars, app, store, backup>>

\* lines 164-169 and 183-189: a rejected project ends the task, and leaving
\* the `with` block removes the temporary directory
ValidateInput(t) ==
    /\ workers[t].pc = "validate"
    /\ \E exists \in BOOLEAN :
          /\ exists \/ project = {}
          /\ workers[t].input = "zip" => exists
          /\ IF ValidateEjbProject(exists).is_valid
             THEN /\ workers' = [workers EXCEPT ![t].pc = "parse"]
                  /\ temp_dir' = IF workers[t].input = "zip" THEN temp_dir ELSE "none"
             ELSE /\ workers' = [workers EXCEPT ![t].pc = "ended",
                                                ![t].outcome = "invalid"]
                  /\ temp_dir' = IF workers[t].input = "zip" THEN "removed" ELSE "none"
    /\ UNCHANGED <<project, parserVars, app, store, backup>>

\* lines 172-174 and 192-193
ParseProject(t) ==
    /\ workers[t].pc = "parse"
    /\ \E order \in ImportOrders :
          LET parsed == FreshParse(order)
          IN workers' = [workers EXCEPT ![t].symbol_table = parsed.symbol_table,
                                        ![t].interfaces = parsed.interfaces,
                                        ![t].pc = "assign_symbol_table"]
    /\ UNCHANGED <<project, parserVars, app, store, backup, temp_dir>>

\* lines 176 and 195
AssignSymbolTable(t) ==
    /\ workers[t].pc = "assign_symbol_table"
    /\ app' = [app EXCEPT !.ejb_symbol_table = workers[t].symbol_table]
    /\ workers' = [workers EXCEPT ![t].pc = "assign_interfaces"]
    /\ UNCHANGED <<project, parserVars, store, backup, temp_dir>>

\* lines 177 and 196; for a zip input the `with` block ends here
AssignInterfaces(t) ==
    /\ workers[t].pc = "assign_interfaces"
    /\ app' = [app EXCEPT !.ejb_interfaces = workers[t].interfaces]
    /\ workers' = [workers EXCEPT ![t].pc = "assemble"]
    /\ temp_dir' = IF workers[t].input = "zip" THEN "removed" ELSE temp_dir
    /\ UNCHANGED <<project, parserVars, store, backup>>

\* lines 200-202 and build_and_store_rag, lines 503-504: the arguments are the
\* application's attributes at the time of the call
AssembleContexts(t) ==
    /\ workers[t].pc = "assemble"
    /\ workers' = [workers EXCEPT
          ![t].super_contexts = BuildAll(<<>>, app.ejb_interfaces, app.ejb_symbol_table),
          ![t].pc = "backup"]
    /\ UNCHANGED <<project, parserVars, app, store, backup, temp_dir>>

\* build_and_store_rag, lines 506-508: os.makedirs or open() under
\* <project_path>/.ejb_contexts raises when the directory cannot be written,
\* and always when project_path is the zip file; the exception ends the task
\* in the handler of lines 216-220 of ejb_app.py
SaveSuperContextsToFile(t) ==
    /\ workers[t].pc = "backup"
    /\ \E writable \in BOOLEAN :
          IF writable /\ workers[t].input # "zip"
          THEN /\ backup' = WriteFiles(backup, ContextFiles(workers[t].super_contexts))
               /\ workers' = [workers EXCEPT ![t].pc = "clear"]
          ELSE /\ backup' = backup
               /\ workers' = [workers EXCEPT ![t].pc = "ended",
                                             ![t].outcome = "failed"]
    /\ UNCHANGED <<project, parserVars, app, store, temp_dir>>

\* mutant: the collection is not cleared
ClearCollection_Keeps(t) ==
    /\ workers[t].pc = "clear"
    /\ store' = store
    /\ workers' = [workers EXCEPT ![t].pc = "add"]
    /\ UNCHANGED <<project, parserVars, app, backup, temp_dir>>

\* build_and_store_rag, lines 511-512: ChromaDBManager() and clear_collection()
ClearCollection(t) ==
    /\ workers[t].pc = "clear"
    /\ store' = {}
    /\ workers' = [workers EXCEPT ![t].pc = "add"]
    /\ UNCHANGED <<project, parserVars, app, backup, temp_dir>>

\* build_and_store_rag, lines 513-517, and the assignment of line 200
AddSuperContexts(t) ==
    /\ workers[t].pc = "add"
    /\ \E reject \in BOOLEAN :
          store' = AddToCollection(store, Documents(workers[t].super_contexts), reject)
    /\ app' = [app EXCEPT !.ejb_chroma_manager = TRUE]
    /\ workers' = [workers EXCEPT ![t].pc = "ended", ![t].outcome = "done"]
    /\ UNCHANGED <<project, parserVars, backup, temp_dir>>

\* the steps of the task of thread t on a folder
FolderTask(t) ==
    \/ ValidateInput(t)
    \/ ParseProject(t)
    \/ AssignSymbolTable(t)
    \/ AssignInterfaces(t)
    \/ AssembleContexts(t)
    \/ SaveSuperContextsToFile(t)
    \/ ClearCollection(t)
    \/ AddSuperContexts(t)

\* the steps of the task of thread t
Task(t) == ExtractZip(t) \/ FolderTask(t)

(***************************************************************************)
(* The project on disk changes between two parse() calls                   *)
(***************************************************************************)
RemoveFile ==
    /\ pc = "idle"
    /\ edits < MaxEdits
    /\ \E f \in project : project' = project \ {f}
    /\ edits' = edits + 1
    /\ dirty' = TRUE
    /\ UNCHANGED <<scanOrder, symbol_table, all_imports, interfaces, pc, parses, super_contexts, validation, manifest, appVars>>

EditFile ==
    /\ pc = "idle"
    /\ edits < MaxEdits
    /\ \E f \in project : \E g \in AllFiles :
          /\ g.path = f.path
          /\ g # f
          /\ project' = (project \ {f}) \cup {g}
    /\ edits' = edits + 1
    /\ dirty' = TRUE
    /\ UNCHANGED <<scanOrder, symbol_table, all_imports, interfaces, pc, parses, super_contexts, validation, manifest, appVars>>

Next ==
    \/ BuildSymbolTable
    \/ AnalyzeImports
    \/ IdentifyInterfaces
    \/ LinkBeans
    \/ FindRelated
    \/ RemoveFile
    \/ EditFile

Spec == Init /\ [][Next]_vars

SpecClassify == InitClassify /\ [][Next]_vars

SpecLink == InitLink /\ [][Next]_vars

SpecFallback == InitFallback /\ [][Next]_vars

SpecRelate == InitRelate /\ [][Next]_vars

SpecGeneric == InitGeneric /\ [][Next]_vars

\* parse() followed by build_and_store_rag
NextRag == Next \/ BuildAllSuperContexts

SpecRag == InitRelate /\ [][NextRag]_vars

\* the same, with further calls of build_all_super_contexts on one builder
NextBuilder == NextRag \/ BuildAllSuperContextsAgain

SpecBuilder == InitGeneric /\ [][NextBuilder]_vars

\* validate_ejb_project next to parse()
NextValidate == Next \/ ValidateProject

SpecValidate == InitValidate /\ [][NextValidate]_vars

\* the two public entry points on projects with unreadable files
SpecErrors == InitErrors /\ [][NextValidate]_vars

\* generate_json_manifest next to parse()
NextManifest == Next \/ GenerateJsonManifest

SpecManifest == InitManifest /\ [][NextManifest]_vars

\* analysis runs of the application, one after the other, on a folder or a zip
NextSession ==
    \/ SelectFolder
    \/ UploadZip
    \/ \E t \in Threads : AnalyzeProjectAlone(t) \/ Task(t)
    \/ RemoveFile

SpecSession == InitSession /\ [][NextSession]_vars

\* analysis runs of the application on a folder, started at any time
NextGui ==
    \/ SelectFolder
    \/ \E t \in Threads : AnalyzeProject(t) \/ FolderTask(t)
    \/ RemoveFile

SpecGui == InitGui /\ [][NextGui]_vars

(***************************************************************************)
(* Properties                                                              *)
(***************************************************************************)
\* parse() has returned and the project is the one it analysed
Returned == pc = "idle" /\ parses >= 1 /\ ~dirty

\* the first parse() of this EJBParser has returned
FreshReturned == Returned /\ parses = 1

ScenarioA ==
    {f \in LinkUniverse : f.path.file \in {"UserServiceRemote.java", "UserServiceBean.java"}}

\* C1: for the project of exactly UserServiceRemote (un-annotated interface
\* with `String getUser(int id)`) and UserServiceBean (implements
\* UserServiceRemote), a fresh parse() returns exactly one record, of type
\* Remote, linked to UserServiceBean, with the single method getUser.
C1_ScenarioA ==
    (FreshReturned /\ project = ScenarioA) =>
        /\ Len(interfaces) = 1
        /\ interfaces[1].interface_name = UserServiceRemote
        /\ interfaces[1].interface_type = "Remote"
        /\ interfaces[1].bean_class = UserServiceBean
        /\ interfaces[1].methods =
              <<[return_type |-> <<"String">>, name |-> "getUser",
                 parameters |-> <<Param(<<"int">>, "id")>>]>>

C1_Witness ==
    /\ FreshReturned /\ project = ScenarioA
    /\ Len(interfaces) = 1 /\ interfaces[1].bean_class = UserServiceBean

\* C2: over an unchanged project, after any number of parse() calls the
\* interface list holds at most one record per simple interface name (no
\* record is duplicated by a later call).
C2_ParseIdempotent ==
    (Returned /\ edits = 0) =>
        \A i, j \in 1..Len(interfaces) :
            interfaces[i].interface_name = interfaces[j].interface_name => i = j

Declares(f, key) ==
    /\ \E i \in 1..Len(f.decls) : f.decls[i].name = key.name
    /\ key.pkg \in {"", f.package}

\* C3: after parse() the symbol table holds an entry for a name only if some
\* Java file currently in the project declares that type.
C3_SymbolTableRebuilt ==
    Returned =>
        \A i \in 1..Len(symbol_table) :
            \E f \in project : Declares(f, symbol_table[i].key)

\* position of a path in the scan
ScanIndex(p) == CHOOSE i \in 1..Len(rglob) : rglob[i] = p

\* the readable files of the project that declare `key`
Declaring(key) == {f \in project : f.readable /\ Declares(f, key)}

ScannedLast(F) == CHOOSE f \in F : \A g \in F : ScanIndex(g.path) <= ScanIndex(f.path)

AfterSymbolPass == pc = "imports"

\* C4 as stated: after the symbol-table pass every declaration of every
\* readable file has a simple-name entry and, when its file declares a
\* package, a qualified entry mapping to that very file; the simple-name entry
\* maps to the file scanned last among those declaring the simple name.
C4_AsStated ==
    AfterSymbolPass =>
        \A f \in project : f.readable =>
            \A i \in 1..Len(f.decls) :
                LET n == f.decls[i].name IN
                /\ Has(symbol_table, SimpleKey(n))
                /\ Get(symbol_table, SimpleKey(n)) = ScannedLast(Declaring(SimpleKey(n))).path
                /\ f.package # "" =>
                      /\ Has(symbol_table, Key(f.package, n))
                      /\ Get(symbol_table, Key(f.package, n)) = f.path

\* C4 (amended): as above, but the qualified entry maps to the file scanned
\* last among the files declaring the same package and name; it is the
\* declaring file itself when no other file declares that qualified name.
C4_SymbolTableEntries ==
    AfterSymbolPass =>
        \A f \in project : f.readable =>
            \A i \in 1..Len(f.decls) :
                LET n == f.decls[i].name IN
                /\ Has(symbol_table, SimpleKey(n))
                /\ Get(symbol_table, SimpleKey(n)) = ScannedLast(Declaring(SimpleKey(n))).path
                /\ f.package # "" =>
                      /\ Has(symbol_table, Key(f.package, n))
                      /\ Get(symbol_table, Key(f.package, n))
                            = ScannedLast(Declaring(Key(f.package, n))).path
                      /\ Declaring(Key(f.package, n)) = {f}
                            => Get(symbol_table, Key(f.package, n)) = f.path

\* a simple name declared by two readable files of different packages, the
\* simple entry pointing at one and each qualified entry at its own file
C4_Witness ==
    /\ AfterSymbolPass
    /\ \E f, g \in project :
          /\ f.readable /\ g.readable /\ f.package # "" /\ g.package # ""
          /\ f.package # g.package
          /\ \E i \in 1..Len(f.decls) : \E j \in 1..Len(g.decls) :
                /\ f.decls[i].name = g.decls[j].name
                /\ Get(symbol_table, SimpleKey(f.decls[i].name)) = g.path
                /\ Get(symbol_table, Key(f.package, f.decls[i].name)) = f.path
                /\ Get(symbol_table, Key(g.package, g.decls[j].name)) = g.path

UnderIgnoredDir(path) == \E i \in 1..Len(path.dirs) : path.dirs[i] \in DEFAULT_IGNORED_DIRS

\* C5: a .java file under a build/VCS/dependency directory contributes no
\* symbol-table entry and no interface record.
C5_IgnoredDirsSkipped ==
    /\ \A i \in 1..Len(symbol_table) : ~UnderIgnoredDir(symbol_table[i].path)
    /\ \A i \in 1..Len(interfaces) : ~UnderIgnoredDir(interfaces[i].file_path)

\* C6: every record returned by parse() points to a file that declares
\* `interface <Name>` for its simple name, and either one of its captured
\* annotations contains an Enterprise-Bean annotation name (ignoring case) or
\* its simple name ends in a naming-convention suffix.
C6_RecordsQualify ==
    Returned =>
        \A i \in 1..Len(interfaces) :
            LET r == interfaces[i] IN
            /\ \E f \in project :
                  f.path = r.file_path /\ DeclaresInterface(f, r.interface_name)
            /\ \/ \E k \in 1..Len(r.annotations) : IsEjbAnnotation(r.annotations[k])
               \/ MatchesPattern(r.interface_name)

\* the classifier is handed declaration i of file f: the simple-name symbol of
\* the declared interface maps to f, and f can be read
Inspected(f, i) ==
    /\ f.readable
    /\ f.decls[i].kind = "interface"
    /\ Has(symbol_table, SimpleKey(f.decls[i].name))
    /\ Get(symbol_table, SimpleKey(f.decls[i].name)) = f.path

HasRecord(f, i, type) ==
    \E k \in 1..Len(interfaces) :
        /\ interfaces[k].interface_name = f.decls[i].name
        /\ interfaces[k].file_path = f.path
        /\ interfaces[k].interface_type = type

\* C7: an interface without annotations whose simple name ends in "Remote"
\* is retained by the classifier, with category Remote.
C7_RemoteSuffix ==
    Returned =>
        \A f \in project : \A i \in 1..Len(f.decls) :
            (Inspected(f, i) /\ f.decls[i].annots = <<>> /\ EndsWith(f.decls[i].name, "Remote"))
                => HasRecord(f, i, "Remote")

C7_Witness ==
    /\ Returned
    /\ \E f \in project : \E i \in 1..Len(f.decls) :
          /\ Inspected(f, i) /\ f.decls[i].annots = <<>> /\ f.decls[i].name = FooRemote
          /\ HasRecord(f, i, "Remote")

\* C8: an interface annotated @Local whose simple name contains neither
\* "Remote" nor "Local" gets a record of category Local, whatever the
\* placement of the annotation directly above the declaration.
C8_LocalAnnotation ==
    Returned =>
        \A f \in project : \A i \in 1..Len(f.decls) :
            ( /\ Inspected(f, i)
              /\ <<"Local">> \in Range(f.decls[i].annots)
              /\ ~Contains(f.decls[i].name, "Remote")
              /\ ~Contains(f.decls[i].name, "Local") )
                => HasRecord(f, i, "Local")

RemoteCue(r) ==
    \/ \E k \in 1..Len(r.annotations) : Contains(r.annotations[k], "Remote")
    \/ Contains(r.interface_name, "Remote")

LocalCue(r) ==
    \/ \E k \in 1..Len(r.annotations) : Contains(r.annotations[k], "Local")
    \/ Contains(r.interface_name, "Local")

\* C9: a record is Remote whenever an annotation or the simple name contains
\* "Remote"; else Local when an annotation or the name contains "Local"; else
\* Business when the name ends in a convention suffix; else Unknown.
C9_CategoryPrecedence ==
    \A i \in 1..Len(interfaces) :
        LET r == interfaces[i] IN
        r.interface_type =
            IF RemoteCue(r) THEN "Remote"
            ELSE IF LocalCue(r) THEN "Local"
            ELSE IF MatchesPattern(r.interface_name) THEN "Business"
            ELSE "Unknown"

AfterLinkPass == pc = "relate" \/ (pc = "idle" /\ parses >= 1)

\* C10 as stated: with OrderServiceImpl in the symbol table, the record of
\* interface OrderService has bean_class OrderServiceImpl, for every scan order.
C10_AsStated ==
    AfterLinkPass =>
        \A i \in 1..Len(interfaces) :
            ( /\ interfaces[i].interface_name = OrderService
              /\ Has(symbol_table, SimpleKey(OrderServiceImpl)) )
                => interfaces[i].bean_class = OrderServiceImpl

\* C10 (amended): with OrderServiceImpl in the symbol table and no
\* OrderServiceBean in it (the one candidate probed before it), the record of
\* interface OrderService has bean_class OrderServiceImpl, for every scan order.
C10_LinkByNaming ==
    AfterLinkPass =>
        \A i \in 1..Len(interfaces) :
            ( /\ interfaces[i].interface_name = OrderService
              /\ Has(symbol_table, SimpleKey(OrderServiceImpl))
              /\ ~Has(symbol_table, SimpleKey(OrderServiceBean)) )
                => interfaces[i].bean_class = OrderServiceImpl

\* OrderService linked to OrderServiceImpl although OrderServiceImpl was
\* scanned, and entered in the symbol table, after another file
C10_Witness ==
    /\ AfterLinkPass
    /\ \E i \in 1..Len(interfaces) :
          /\ interfaces[i].interface_name = OrderService
          /\ interfaces[i].bean_class = OrderServiceImpl
    /\ Len(symbol_table) >= 2
    /\ symbol_table[1].key # SimpleKey(OrderServiceImpl)
    /\ ~Has(symbol_table, SimpleKey(OrderServiceBean))

(***************************************************************************)
(* Bean linking without a conventional bean class                          *)
(***************************************************************************)
\* some probed name other than the interface's own is in the symbol table
ConventionBeanExists(name) ==
    \E i \in 1..Len(BeanCandidates(name)) :
        /\ BeanCandidates(name)[i] # name
        /\ Has(symbol_table, SimpleKey(BeanCandidates(name)[i]))

\* C11: a record of an interface <X>Local, FooLocal here, has bean_class
\* <X>Bean, FooBean, when the symbol table contains FooBean and none of
\* FooLocalBean, FooLocalImpl, FooLocalEJB.
C11_LocalToBean ==
    AfterLinkPass =>
        \A i \in 1..Len(interfaces) :
            ( /\ interfaces[i].interface_name = FooLocal
              /\ Has(symbol_table, SimpleKey(FooBean))
              /\ ~Has(symbol_table, SimpleKey(FooLocal \o <<"Bean">>))
              /\ ~Has(symbol_table, SimpleKey(FooLocal \o <<"Impl">>))
              /\ ~Has(symbol_table, SimpleKey(FooLocal \o <<"EJB">>)) )
                => interfaces[i].bean_class = FooBean

\* the link pass of a first parse() has run on the project as it is
AfterFreshLink == (pc = "relate" /\ parses = 0) \/ FreshReturned

\* the classes whose readable file names the interface in an implements clause
Implementers(name) ==
    { symbol_table[i].key.name : i \in
        { j \in 1..Len(symbol_table) :
            /\ symbol_table[j].key.name # name
            /\ Readable(symbol_table[j].path)
            /\ HasImplementsClause(FileAt(symbol_table[j].path), name) } }

\* C12: when no naming-convention bean of an interface exists and the file of
\* some other class contains an implements clause naming the interface, the
\* record's bean_class is such a class.
C12_ImplementsFallback ==
    AfterFreshLink =>
        \A i \in 1..Len(interfaces) :
            ( /\ ~ConventionBeanExists(interfaces[i].interface_name)
              /\ Implementers(interfaces[i].interface_name) # {} )
                => interfaces[i].bean_class \in Implementers(interfaces[i].interface_name)

\* C13: when neither a naming-convention bean nor an implementing class
\* exists, bean_class stays None; and bean_class is never the interface's own
\* simple name.
C13_MissIsAbsence ==
    AfterFreshLink =>
        \A i \in 1..Len(interfaces) :
            /\ ( /\ ~ConventionBeanExists(interfaces[i].interface_name)
                 /\ Implementers(interfaces[i].interface_name) = {} )
                   => interfaces[i].bean_class = None
            /\ interfaces[i].bean_class # interfaces[i].interface_name

(***************************************************************************)
(* Related classes                                                         *)
(***************************************************************************)
Count(list, x) == Cardinality({i \in 1..Len(list) : list[i] = x})

\* C14 (scenario C): after parse() of a project holding the scenario-C file,
\* PaymentDAO has a record, and related_dtos of every PaymentDAO record
\* contains PaymentDTO and PaymentRequestDTO exactly once each.
C14_ScenarioC ==
    (Returned /\ ScenarioCFile \in project) =>
        /\ \E i \in 1..Len(interfaces) : interfaces[i].interface_name = PaymentDAO
        /\ \A i \in 1..Len(interfaces) :
              interfaces[i].interface_name = PaymentDAO =>
                  /\ Count(interfaces[i].related_dtos, PaymentDTO) = 1
                  /\ Count(interfaces[i].related_dtos, PaymentRequestDTO) = 1

\* the scenario-C project parsed once: one record with exactly the two DTOs
C14_Witness ==
    /\ FreshReturned
    /\ ScenarioCFile \in project
    /\ Len(interfaces) = 1
    /\ interfaces[1].interface_name = PaymentDAO
    /\ Range(interfaces[1].related_dtos) = {PaymentDTO, PaymentRequestDTO}

\* the related names the resolver gives record i from the state before the
\* pass, when the import set is iterated in order o
Related(i, o) == RelateOne(interfaces[i], all_imports, o)

\* the sets of related names of record i, for every iteration order
RelatedSets(i) ==
    { LET r == Related(i, o) IN <<Range(r.related_dtos), Range(r.related_entities)>>
        : o \in ImportOrders }

\* C15: before the related-class pass, for every record: the resulting sets
\* of related DTO and entity names are the same for every iteration order of
\* the import set, and running the resolver again on its result, in any
\* order, leaves both lists unchanged.
C15_RelateIdempotent ==
    pc = "relate" =>
        \A i \in 1..Len(interfaces) :
            /\ Cardinality(RelatedSets(i)) = 1
            /\ \A o1 \in ImportOrders :
                  LET r == Related(i, o1) IN
                  \A o2 \in ImportOrders : RelateOne(r, all_imports, o2) = r

\* two import orders give the same DTO names in different list order, next
\* to a DTO that only a method signature names
C15_Witness ==
    /\ pc = "relate"
    /\ \E i \in 1..Len(interfaces) : \E o1, o2 \in ImportOrders :
          /\ Related(i, o1).related_dtos # Related(i, o2).related_dtos
          /\ Range(Related(i, o1).related_dtos) = {PaymentDTO, UserDTO, PaymentRequestDTO}
          /\ Related(i, o1).related_entities = <<OrderEntity>>

\* the return and parameter types of a record's methods
MethodTypes(info) ==
    UNION { {StripAngles(info.methods[k].return_type)}
              \cup Range([j \in 1..Len(info.methods[k].parameters) |->
                             StripAngles(info.methods[k].parameters[j].type)])
            : k \in 1..Len(info.methods) }

\* C16: after parse(), every method return or parameter type of a record
\* whose name contains an entity keyword is in the record's
\* related_entities, imported or not.
C16_EntitiesFromSignatures ==
    Returned =>
        \A i \in 1..Len(interfaces) : \A t \in MethodTypes(interfaces[i]) :
            HasKeyword(t, entity_keywords) => t \in Range(interfaces[i].related_entities)

(***************************************************************************)
(* Super-contexts                                                          *)
(***************************************************************************)
\* parse() has returned, so a builder can be given its results
BuildReady == pc = "idle" /\ parses >= 1

\* the name has a symbol-table entry whose file is present and is read with
\* a non-empty text
Resolves(name) ==
    /\ Has(symbol_table, SimpleKey(name))
    /\ \E f \in project :
          /\ f.path = Get(symbol_table, SimpleKey(name))
          /\ f.readable
          /\ ContentOf(f) # EmptyContent

CodeNames(codes) == {codes[k].name : k \in 1..Len(codes)}

\* codes is a dict over a subset of the names that resolve; it has as many
\* entries as names only when every name resolves
CodesWithin(codes, names) ==
    /\ Cardinality(CodeNames(codes)) = Len(codes)
    /\ CodeNames(codes) \subseteq {n \in Range(names) : Resolves(n)}
    /\ Len(codes) <= Len(names)
    /\ Len(codes) = Len(names) => \A n \in Range(names) : Resolves(n)

\* C17: for every SuperContext built from a record, the keys of dto_codes
\* are related_dtos names that have a symbol-table entry whose file is read
\* with non-empty content, there are at most as many of them as related_dtos
\* names, and as many only when every related name resolves to a present
\* readable file; likewise for entity_codes and related_entities.
C17_CodesResolve ==
    BuildReady =>
        \A i \in 1..Len(interfaces) :
            \A sc \in Range(BuildSuperContext(interfaces[i], symbol_table)) :
                /\ CodesWithin(sc.dto_codes, interfaces[i].related_dtos)
                /\ CodesWithin(sc.entity_codes, interfaces[i].related_entities)

\* a built context of PaymentDAO holds the code of PaymentDTO alone out of
\* three related DTO names, and the code of its one related entity
C17_Witness ==
    /\ BuildReady
    /\ \E i \in 1..Len(interfaces) : \E k \in 1..Len(super_contexts) :
          /\ <<super_contexts[k]>> = BuildSuperContext(interfaces[i], symbol_table)
          /\ Len(interfaces[i].related_dtos) = 3
          /\ CodeNames(super_contexts[k].dto_codes) = {PaymentDTO}
          /\ interfaces[i].related_entities = <<OrderEntity>>
          /\ CodeNames(super_contexts[k].entity_codes) = {OrderEntity}

SectionHeaders == <<InterfaceHeader, BeanHeader, DtoHeader, EntityHeader>>

Rank(header) == CHOOSE n \in 1..Len(SectionHeaders) : SectionHeaders[n] = header

\* the section headers of a rendering, in the order they are written
HeadersOf(rendering) == SelectSeq(rendering, LAMBDA l : l \in Range(SectionHeaders))

\* Interface Definition is present and first; the sections present follow
\* the order Interface, Bean, DTOs, Entities
SectionsInOrder(rendering) ==
    LET h == HeadersOf(rendering) IN
    /\ h # <<>>
    /\ h[1] = InterfaceHeader
    /\ \A a, b \in 1..Len(h) : a < b => Rank(h[a]) < Rank(h[b])

\* each of the summary lines is written before the first code section
SummaryFirst(rendering, texts) ==
    \A t \in texts :
        \E j \in 1..Len(rendering) :
            /\ rendering[j].text = t
            /\ \A n \in 1..Len(rendering) :
                  rendering[n] \in Range(SectionHeaders) => j < n

\* C18: in both renderings of every built SuperContext the sections present
\* appear in the order Interface Definition, Implementation Bean, Related
\* DTOs, Related Entities, with Interface Definition present and first; in
\* the retrieval rendering the lines INTERFACE, PACKAGE, TYPE, and METHODS
\* when the method list is non-empty, precede every code section.
C18_SectionOrder ==
    \A k \in 1..Len(super_contexts) :
        LET sc == super_contexts[k] IN
        /\ SectionsInOrder(FormatSuperContext(sc))
        /\ SectionsInOrder(FormatForChroma(sc))
        /\ SummaryFirst(FormatForChroma(sc),
                        {"INTERFACE: ", "PACKAGE: ", "TYPE: "}
                            \cup (IF sc.metadata.methods # <<>> THEN {"METHODS: "} ELSE {}))

\* a built context with methods whose renderings have all four sections
C18_Witness ==
    \E k \in 1..Len(super_contexts) :
        /\ super_contexts[k].metadata.methods # <<>>
        /\ HeadersOf(FormatSuperContext(super_contexts[k])) = SectionHeaders
        /\ HeadersOf(FormatForChroma(super_contexts[k])) = SectionHeaders

(***************************************************************************)
(* Project validation                                                      *)
(***************************************************************************)
NoJavaFiles == Verdict(FALSE, Message("No Java files found in the project", <<>>))

\* C19: for an existing project directory without Java files,
\* validate_ejb_project returns (False, "No Java files found ..."), with or
\* without an ejb-jar.xml, and a first parse() returns an empty symbol table
\* and an empty interface list.
C19_NoJavaFiles ==
    rglob = <<>> =>
        /\ ValidateEjbProject(TRUE) = NoJavaFiles
        /\ FreshReturned => (symbol_table = <<>> /\ interfaces = <<>>)

\* a directory holding only ejb-jar.xml was parsed and then validated
C19_Witness ==
    /\ project = {EjbJarXml}
    /\ FreshReturned
    /\ symbol_table = <<>>
    /\ interfaces = <<>>
    /\ validation = <<NoJavaFiles>>

\* the Java files among the first hundred
Sampled == {rglob[n] : n \in {m \in 1..Len(rglob) : m <= SampleLimit}}

\* the interface declarations of the sampled files whose name ends in one
\* of the five conventional suffixes
ConventionalInterfaces ==
    { <<p, i>> \in Sampled \X (1..2) :
        /\ i <= Len(FileAt(p).decls)
        /\ FileAt(p).decls[i].kind = "interface"
        /\ Last(FileAt(p).decls[i].name) \in Range(INTERFACE_PATTERNS) }

\* the verdict held is the one validate_ejb_project gives the project as it is
Validated == validation # None /\ validation[1] = ValidateEjbProject(TRUE)

\* C20: validate_ejb_project reports an existing project valid exactly when
\* it has a Java file and an ejb-jar.xml exists, or one of the annotations
\* Remote, Local, Stateless, Stateful, Singleton, MessageDriven, EJB, EJBs
\* occurs in the first 100 Java files, or at least two interfaces with a
\* conventional suffix are declared (interfaces counted, not files).
C20_ValidIff ==
    Validated =>
        ( validation[1].is_valid <=>
            /\ rglob # <<>>
            /\ \/ rglobXml # <<>>
               \/ \E p \in Sampled : \E i \in 1..Len(FileAt(p).decls) :
                     \E k \in 1..Len(FileAt(p).decls[i].annots) :
                         FileAt(p).decls[i].annots[k] \in {<<a>> : a \in EJB_ANNOTATIONS}
               \/ Cardinality(ConventionalInterfaces) >= 2 )

(***************************************************************************)
(* Claims about the analysis runs of the application                       *)
(***************************************************************************)
\* a run of thread t on a zip archive that passed validation
ZipRun(t) ==
    /\ workers[t].input = "zip"
    /\ workers[t].pc \notin {"new", "extract", "validate"}
    /\ workers[t].outcome # "invalid"

\* C21: a run on a zip archive that passes validation is handled like a run
\* on a directory: the extracted tree still exists while the contexts are
\* assembled, the run does not end in the error handler, and a run that has
\* assembled holds one SuperContext per discovered interface and, once it has
\* ended, has stored one document per discovered interface.
C21_ZipLikeDirectory ==
    \A t \in Threads :
        ZipRun(t) =>
            /\ workers[t].pc = "assemble" => temp_dir = "open"
            /\ workers[t].outcome # "failed"
            /\ (workers[t].pc \in {"backup", "clear", "add", "ended"} /\ edits = 0)
                  => Len(workers[t].super_contexts) = Len(workers[t].interfaces)
            /\ (workers[t].pc = "ended" /\ edits = 0)
                  => Cardinality(store) = Len(workers[t].interfaces)

\* a zip run found interfaces and is about to assemble their contexts
C21_Reached ==
    \E t \in Threads :
        ZipRun(t) /\ workers[t].pc = "assemble" /\ workers[t].interfaces # <<>>

\* the tree has exactly one top-level entry, a directory, and every file lies in it
SingleTopLevelDirectory(tree) ==
    /\ tree # {}
    /\ \A f \in tree : f.path.dirs # <<>>
    /\ \A f, g \in tree : f.path.dirs[1] = g.path.dirs[1]

\* C22: extract_from_zip returns the single top-level directory when the
\* target directory holds exactly one entry after extraction and that entry
\* is a directory; with several top-level entries, a single top-level file or
\* no entry it returns the target directory itself.
C22_ExtractRoot ==
    [][\A t \in Threads :
          ExtractZip(t) =>
              IF SingleTopLevelDirectory(project)
              THEN \A f \in project : workers'[t].extracted_path = <<f.path.dirs[1]>>
              ELSE workers'[t].extracted_path = <<>>]_vars

\* an archive with a single top-level directory was extracted and descended into
C22_Witness ==
    \E t \in Threads :
        /\ workers[t].input = "zip"
        /\ workers[t].pc = "validate"
        /\ edits = 0
        /\ SingleTopLevelDirectory(project)
        /\ workers[t].extracted_path = <<"ejb">>

\* thread t ran the most recent analysis
LatestRun(t) == \A u \in Threads : u > t => workers[u].pc = "new"

\* C24: a write failure in the backup directory does not abort the run: when
\* save_super_contexts_to_file of a run on a folder could not write, the store
\* has still been cleared and repopulated with the assembled bundles, and the
\* store manager has been returned to the application.
C24_BackupFailureTolerated ==
    \A t \in Threads :
        (workers[t].input = "dir" /\ workers[t].outcome = "failed" /\ LatestRun(t))
            => /\ store = Documents(workers[t].super_contexts)
               /\ app.ejb_chroma_manager

SameBut(before, after, fields) ==
    /\ "bean_class" \notin fields => after.bean_class = before.bean_class
    /\ "related_dtos" \notin fields => after.related_dtos = before.related_dtos
    /\ "related_entities" \notin fields => after.related_entities = before.related_entities
    /\ after.id = before.id
    /\ after.interface_name = before.interface_name
    /\ after.file_path = before.file_path
    /\ after.package = before.package
    /\ after.annotations = before.annotations
    /\ after.interface_type = before.interface_type
    /\ after.methods = before.methods

RecordsSameBut(fields) ==
    /\ Len(interfaces') = Len(interfaces)
    /\ \A i \in 1..Len(interfaces) : SameBut(interfaces[i], interfaces'[i], fields)

\* C26: the bean-linking pass changes only bean_class, the relatedness pass
\* changes only related_dtos and related_entities, and context assembly
\* changes no field of any record; the symbol table and the import map are
\* left unchanged by all three.
C26_Frame ==
    [][/\ LinkBeans => RecordsSameBut({"bean_class"})
       /\ FindRelated => RecordsSameBut({"related_dtos", "related_entities"})
       /\ BuildAllSuperContexts => RecordsSameBut({})
       /\ (LinkBeans \/ FindRelated \/ BuildAllSuperContexts)
             => symbol_table' = symbol_table /\ all_imports' = all_imports]_vars

\* both passes have written their fields and the contexts have been assembled
C26_Witness ==
    /\ Returned
    /\ super_contexts # <<>>
    /\ \E i \in 1..Len(interfaces) :
          /\ interfaces[i].bean_class # None
          /\ interfaces[i].related_dtos # <<>>
          /\ interfaces[i].related_entities # <<>>

\* the simple type names of a type text: its runs of tokens between angle
\* brackets (List<UserDTO> names List and UserDTO)
RECURSIVE TypeNamesIn(_, _)
TypeNamesIn(text, name) ==
    IF text = <<>> THEN (IF name = <<>> THEN {} ELSE {name})
    ELSE IF Head(text) \in {"<", ">"}
    THEN (IF name = <<>> THEN {} ELSE {name}) \cup TypeNamesIn(Tail(text), <<>>)
    ELSE TypeNamesIn(Tail(text), Append(name, Head(text)))

\* the type names of a file: last segments of imports, return types, parameter types
FileTypeNames(file) ==
    {imp.name : imp \in file.imports}
    \cup UNION {TypeNamesIn(file.methods[k].ret, <<>>) : k \in 1..Len(file.methods)}
    \cup UNION {UNION {TypeNamesIn(file.methods[k].params[j].type, <<>>) :
                          j \in 1..Len(file.methods[k].params)} :
                   k \in 1..Len(file.methods)}

\* C27: after a first parse(), every name in related_dtos and
\* related_entities of a record is a simple type name of the interface file
\* (last segment of an import, or a type name of a return or parameter type);
\* for the return type List<UserDTO> the name is UserDTO or List, never the
\* concatenation ListUserDTO.
C27_RelatedNamesAreTypeNames ==
    FreshReturned =>
        \A i \in 1..Len(interfaces) :
            \A n \in Range(interfaces[i].related_dtos) \cup Range(interfaces[i].related_entities) :
                n \in FileTypeNames(FileAt(interfaces[i].file_path))

\* the SuperContexts the builder holds for a record
ContextsOf(info) ==
    {n \in 1..Len(super_contexts) : super_contexts[n].interface_name = info.interface_name}

\* C28: after build_all_super_contexts on the results of a first parse() of
\* an unchanged project, repeated calls on the same builder included,
\* super_contexts holds exactly one SuperContext for each record whose
\* interface file is readable and not empty, and none for any other record.
C28_OncePerInterface ==
    (BuildReady /\ parses = 1 /\ edits = 0 /\ super_contexts # <<>>) =>
        \A i \in 1..Len(interfaces) :
            Cardinality(ContextsOf(interfaces[i]))
                = IF Truthy(ReadFileContent(interfaces[i].file_path)) THEN 1 ELSE 0

\* the runs that went through build_and_store_rag to its end
Completed == {t \in Threads : workers[t].outcome = "done"}

DerivesFrom(t) ==
    /\ app.ejb_symbol_table = workers[t].symbol_table
    /\ app.ejb_interfaces = workers[t].interfaces
    /\ store = Documents(workers[t].super_contexts)

\* C30: when analysis runs are started from the UI at any time, a second one
\* possibly while the first is in flight, then once all of them have run to
\* completion the interface list, the symbol table and the store contents
\* all derive from one and the same run.
C30_OneRun ==
    (\A t \in Threads : workers[t].outcome = "done") => \E t \in Threads : DerivesFrom(t)

(***************************************************************************)
(* Claims about the JSON manifest                                          *)
(***************************************************************************)
\* dict.keys() and dict[key] of a parsed JSON object
KeysOf(dict) == [i \in 1..Len(dict) |-> dict[i].key]

ItemOf(dict, key) == dict[CHOOSE i \in 1..Len(dict) : dict[i].key = key].value

\* the fields of EJBInterfaceInfo, as declared
InterfaceFields ==
    <<"id", "interface_name", "bean_class", "file_path", "package", "annotations",
      "interface_type", "methods", "related_dtos", "related_entities">>

\* the parsed object d carries the fields of record info, unchanged and in order
\* (a value is named by a quantifier over its singleton, which evaluates it once)
SameRecord(d, info) ==
    /\ KeysOf(d) = InterfaceFields
    /\ ItemOf(d, "id") = info.id
    /\ ItemOf(d, "interface_name") = info.interface_name
    /\ ItemOf(d, "bean_class") = info.bean_class
    /\ ItemOf(d, "file_path") = info.file_path
    /\ ItemOf(d, "package") = info.package
    /\ ItemOf(d, "annotations") = info.annotations
    /\ ItemOf(d, "interface_type") = info.interface_type
    /\ \A methods \in {ItemOf(d, "methods")} :
          /\ Len(methods) = Len(info.methods)
          /\ \A k \in 1..Len(info.methods) :
                \A method \in {methods[k]} :
                   /\ KeysOf(method) = <<"return_type", "name", "parameters">>
                   /\ ItemOf(method, "return_type") = info.methods[k].return_type
                   /\ ItemOf(method, "name") = info.methods[k].name
                   /\ ItemOf(method, "parameters") = info.methods[k].parameters
    /\ ItemOf(d, "related_dtos") = info.related_dtos
    /\ ItemOf(d, "related_entities") = info.related_entities

====
